---- MODULE Spec2Model ----
(***************************************************************************)
(* Model of check_feature_branch.py: the FeatureBranchChecker class (the   *)
(* command runner, the four repository queries, the branch decision and    *)
(* create_or_switch_branch) and the command-line run of main().            *)
(*                                                                         *)
(* Text is modelled as a sequence of tokens.  A token is a group of        *)
(* characters that the program's string operations never split: a single   *)
(* blank, a newline, the `*` marker, the path segments `remotes/`,         *)
(* `origin/`, `upstream/`, and a bare name.  strip, split, startswith and  *)
(* replace are written for sequences and work token by token.              *)
(***************************************************************************)
EXTENDS Integers, Sequences, FiniteSets, TLC

VARIABLES
    repo,           \* the repository in the working directory (changed by git and out-of-band)
    pc,             \* position of the run
    argv,           \* sys.argv
    branch_name,    \* main's branch_name (sys.argv[1])
    caller,         \* who is evaluating check_feature_branch: "main" or "execute"
    result,         \* main: result = checker.check_feature_branch(branch_name)
    check_result,   \* create_or_switch_branch: check_result = self.check_feature_branch(...)
    response,       \* main: the answer read from standard input, as typed
    ret,            \* what create_or_switch_branch returned: <<success, message>>
    exit_code,      \* the exit status of the process, -1 while it runs
    log,            \* every command handed to subprocess.run, with what run_git_command returned
    raw,            \* the captured standard output of the last command, before stripping
    branches,       \* get_all_branches: the list it last returned
    failures,       \* commands that timed out or could not be launched so far
    changes         \* out-of-band changes of the repository so far

vars == <<repo, pc, argv, branch_name, caller, result, check_result, response,
          ret, exit_code, log, raw, branches, failures, changes>>

-----------------------------------------------------------------------------
(* Bounds *)

MaxFailures == 2       \* commands that fail for a reason outside the repository, per run
MaxChanges == 1        \* out-of-band changes of the repository, per run
MaxLines == 4          \* lines of a branch listing given to the parser on its own

-----------------------------------------------------------------------------
(* Text *)

SP == " "
NL == "\n"
Whitespace == {SP, NL, "\t"}

RECURSIVE LStrip(_)
LStrip(s) == IF s # <<>> /\ Head(s) \in Whitespace THEN LStrip(Tail(s)) ELSE s

RECURSIVE RStrip(_)
RStrip(s) ==
    IF s # <<>> /\ s[Len(s)] \in Whitespace THEN RStrip(SubSeq(s, 1, Len(s) - 1)) ELSE s

\* str.strip()
Strip(s) == RStrip(LStrip(s))

\* str.startswith(p)
StartsWith(s, p) == Len(s) >= Len(p) /\ SubSeq(s, 1, Len(p)) = p

\* str.replace(old, ''): every non-overlapping occurrence, left to right
RECURSIVE Remove(_, _)
Remove(s, old) ==
    IF s = <<>> THEN <<>>
    ELSE IF StartsWith(s, old) THEN Remove(SubSeq(s, Len(old) + 1, Len(s)), old)
    ELSE <<Head(s)>> \o Remove(Tail(s), old)

\* str.split('\n'): the list of lines; the text "" gives the one line ""
RECURSIVE SplitFrom(_, _)
SplitFrom(s, line) ==
    IF s = <<>> THEN <<line>>
    ELSE IF Head(s) = NL THEN <<line>> \o SplitFrom(Tail(s), <<>>)
    ELSE SplitFrom(Tail(s), Append(line, Head(s)))

Split(s) == SplitFrom(s, <<>>)

\* str.lower(), on the letters an answer is typed with
LowerToken(t) ==
    CASE t = "Y" -> "y"
      [] t = "E" -> "e"
      [] t = "S" -> "s"
      [] t = "N" -> "n"
      [] t = "O" -> "o"
      [] OTHER -> t

Lower(s) == [i \in 1..Len(s) |-> LowerToken(s[i])]

SeqToSet(s) == {s[i] : i \in 1..Len(s)}

\* Optional[str]: None, or the string
None == <<>>
Some(s) == <<s>>

-----------------------------------------------------------------------------
(* get_all_branches, lines 51-61: the parse of the listing *)

\* lines 56-59: the name kept for one stripped, non-empty, unstarred line
BranchNameOf(line) ==
    IF StartsWith(line, <<"remotes/">>)
    THEN Remove(Remove(line, <<"remotes/", "origin/">>), <<"remotes/">>)
    ELSE line

\* line 54
KeepLine(line) == line # <<>> /\ ~StartsWith(line, <<"*">>)

RECURSIVE ParseLines(_)
ParseLines(lines) ==
    IF lines = <<>> THEN <<>>
    ELSE LET line == Strip(Head(lines))
         IN  (IF KeepLine(line) THEN <<BranchNameOf(line)>> ELSE <<>>)
             \o ParseLines(Tail(lines))

\* lines 47-61, given what run_git_command returned
get_all_branches(success, output) ==
    IF ~success THEN <<>> ELSE ParseLines(Split(output))

-----------------------------------------------------------------------------
(* The repository and the git tool the commands are handed to *)

DETACHED == "(HEAD detached)"

LocalNames == {"main", "dev"}
CreatedNames == {"rel"}
RemoteRefs == {<<"origin/", "rel">>}

NameOrder == <<"dev", "main", "rel">>
RemoteOrder == <<<<"origin/", "rel">>>>

NoRepo == [isRepo |-> FALSE, dirty |-> FALSE, head |-> DETACHED, locals |-> {}, remotes |-> {}]

Repos ==
    {NoRepo} \cup
    {r \in [isRepo : {TRUE}, dirty : BOOLEAN, head : LocalNames \cup {DETACHED},
            locals : SUBSET LocalNames, remotes : SUBSET RemoteRefs] :
        /\ r.locals # {}
        /\ r.head \in r.locals \cup {DETACHED}}

\* the names a run can be asked for: the empty string, two local names, a remote-only name
Args == {<<>>, <<"main">>, <<"dev">>, <<"rel">>}

Prog == <<"check_feature_branch.py">>
Argvs == {<<Prog>>, <<Prog, <<"dev">>, <<"main">>>>} \cup {<<Prog, b>> : b \in Args}

\* what a user types at the prompt, character by character
Answers == {<<"y">>, <<SP, "Y", "E", "s", SP>>, <<"n">>, <<>>, <<"y", "e">>}

RECURSIVE LocalLines(_, _)
LocalLines(r, order) ==
    IF order = <<>> THEN <<>>
    ELSE (IF Head(order) \notin r.locals THEN <<>>
          ELSE IF Head(order) = r.head THEN <<"*", SP, Head(order), NL>>
          ELSE <<SP, SP, Head(order), NL>>)
         \o LocalLines(r, Tail(order))

RECURSIVE RemoteLines(_, _)
RemoteLines(r, order) ==
    IF order = <<>> THEN <<>>
    ELSE (IF Head(order) \notin r.remotes THEN <<>>
          ELSE <<SP, SP, "remotes/">> \o Head(order) \o <<NL>>)
         \o RemoteLines(r, Tail(order))

\* `git branch -a`: the detached head first, the local branches, the remote ones
GitBranchAll(r) ==
    (IF r.head = DETACHED THEN <<"*", SP, "(HEAD detached at 1a2b3c4)", NL>> ELSE <<>>)
    \o LocalLines(r, NameOrder) \o RemoteLines(r, RemoteOrder)

\* `git branch --show-current`: the branch name, nothing when detached
GitShowCurrent(r) == IF r.head = DETACHED THEN <<>> ELSE <<r.head, NL>>

\* `git status --porcelain`: one line per changed path
GitStatus(r) == IF r.dirty THEN <<SP, "M", SP, "README.md", NL>> ELSE <<>>

\* the argument lists handed to run_git_command, each argument a text
CmdProbe == <<<<"git">>, <<"rev-parse">>, <<"--git-dir">>>>
CmdStatus == <<<<"git">>, <<"status">>, <<"--porcelain">>>>
CmdCurrent == <<<<"git">>, <<"branch">>, <<"--show-current">>>>
CmdList == <<<<"git">>, <<"branch">>, <<"-a">>>>
CmdCheckout(name) == <<<<"git">>, <<"checkout">>, name>>
CmdCreate(name) == <<<<"git">>, <<"checkout">>, <<"-b">>, name>>

Exit(rc, out, err, after) ==
    [kind |-> "exit", rc |-> rc, out |-> out, err |-> err, repo |-> after]

NotARepo(r) == Exit(128, <<>>, <<"fatal: not a git repository", NL>>, r)

\* `git checkout <name>`: a local branch, or a branch of exactly one remote
GitCheckout(r, name) ==
    IF Len(name) = 1 /\ name[1] \in r.locals
    THEN Exit(0, <<>>, <<"Switched to branch", NL>>, [r EXCEPT !.head = name[1]])
    ELSE IF Len(name) = 1 /\ Cardinality({x \in r.remotes : x[2] = name[1]}) = 1
    THEN Exit(0, <<"Branch set up to track remote branch", NL>>, <<"Switched to a new branch", NL>>,
              [r EXCEPT !.head = name[1], !.locals = @ \cup {name[1]}])
    ELSE IF Len(name) = 2 /\ name \in r.remotes
    THEN Exit(0, <<>>, <<"HEAD is now at 1a2b3c4", NL>>, [r EXCEPT !.head = DETACHED])
    ELSE Exit(1, <<>>, <<"error: pathspec did not match", NL>>, r)

\* `git checkout -b <name>`: a new local branch at HEAD
GitCreate(r, name) ==
    IF Len(name) = 1 /\ name[1] \in (LocalNames \cup CreatedNames) \ r.locals
    THEN Exit(0, <<>>, <<"Switched to a new branch", NL>>,
              [r EXCEPT !.head = name[1], !.locals = @ \cup {name[1]}])
    ELSE IF name = <<>>
    THEN Exit(129, <<>>, <<"error: switch `b' requires a value", NL>>, r)
    ELSE Exit(128, <<>>, <<"fatal: a branch of that name already exists", NL>>, r)

\* the exit of git itself on the repository r
Git(cmd, r) ==
    IF ~r.isRepo THEN NotARepo(r)
    ELSE IF cmd = CmdProbe THEN Exit(0, <<".git", NL>>, <<>>, r)
    ELSE IF cmd = CmdStatus THEN Exit(0, GitStatus(r), <<>>, r)
    ELSE IF cmd = CmdCurrent THEN Exit(0, GitShowCurrent(r), <<>>, r)
    ELSE IF cmd = CmdList THEN Exit(0, GitBranchAll(r), <<>>, r)
    ELSE IF Len(cmd) = 3 THEN GitCheckout(r, cmd[3])
    ELSE GitCreate(r, cmd[4])

\* what subprocess.run(command, ..., timeout=30) can do: the exit of git, a git that
\* rejects the command, the timeout, or a failure to launch
Launch(cmd, r, mayFail) ==
    {Git(cmd, r)} \cup
    (IF mayFail
     THEN {Exit(129, <<>>, <<"error: unknown option", NL>>, r),
           [kind |-> "timeout", rc |-> -1, out |-> <<>>, err |-> <<>>, repo |-> r],
           [kind |-> "error", rc |-> -1, out |-> <<>>,
            err |-> <<"[Errno 2] No such file or directory: 'git'">>, repo |-> r]}
     ELSE {})

Failed(o) == o.kind # "exit" \/ o.rc # 0

\* run_git_command, lines 21-33: <<success, stdout, stderr>>
run_git_command(o) ==
    IF o.kind = "exit" THEN <<o.rc = 0, Strip(o.out), Strip(o.err)>>
    ELSE IF o.kind = "timeout" THEN <<FALSE, <<>>, <<"Command timed out">>>>
    ELSE <<FALSE, <<>>, o.err>>

\* a variant of is_git_repository that takes any answer of git for a success
is_git_repository_answered(r) == r[1] \/ r[3] # <<>>

\* is_git_repository, lines 37-38
is_git_repository(r) == r[1]

\* get_current_branch, lines 42-43
get_current_branch(r) == IF r[1] THEN Some(r[2]) ELSE None

\* a variant of has_uncommitted_changes with the comparison inverted
has_uncommitted_changes_inverted(r) == r[1] /\ Strip(r[2]) = <<>>

\* has_uncommitted_changes, lines 65-66
has_uncommitted_changes(r) == r[1] /\ Strip(r[2]) # <<>>

-----------------------------------------------------------------------------
(* check_feature_branch, lines 96-136 *)

NotRepoError == <<"Not a Git repository">>
DirtyError == <<"Cannot change branch: uncommitted changes detected">>
DirtyWarning == <<"Commit or stash your changes before switching branches">>

\* lines 98-104
NewResult(b) ==
    [branch_name |-> b, can_proceed |-> FALSE, action |-> "unknown",
     error |-> None, warnings |-> <<>>]

\* lines 108-109
NotRepoResult(b) == [NewResult(b) EXCEPT !.error = Some(NotRepoError)]

\* lines 113-115
DirtyResult(b) ==
    [NewResult(b) EXCEPT !.error = Some(DirtyError), !.warnings = <<DirtyWarning>>]

\* lines 120-123
AlreadyResult(b) ==
    [NewResult(b) EXCEPT !.can_proceed = TRUE, !.action = "already_on_branch",
                         !.warnings = <<<<"Already on branch '">> \o b \o <<"'">>>>]

\* line 119
IsCurrent(current_branch, b) == current_branch = Some(b)

\* line 127
BranchExists(b, list) == b \in SeqToSet(list)

\* lines 127-136
ExistenceResult(b, list) ==
    IF BranchExists(b, list)
    THEN [NewResult(b) EXCEPT !.can_proceed = TRUE, !.action = "switch",
              !.warnings = <<<<"Branch '">> \o b \o <<"' exists, will switch to it">>>>]
    ELSE [NewResult(b) EXCEPT !.can_proceed = TRUE, !.action = "create",
              !.warnings = <<<<"Branch '">> \o b \o <<"' does not exist, will create it">>>>]

\* `if result['error']:` is taken for a string that is not empty
Truthy(x) == x # None /\ x # Some(<<>>)

\* a variant of the runner that runs a failed command a second time
Logged_retry(cmd, o) ==
    LET e == [cmd |-> cmd, by |-> caller, ok |-> run_git_command(o)[1],
              out |-> run_git_command(o)[2]]
    IN  IF e.ok THEN Append(log, e) ELSE Append(Append(log, e), e)

\* subprocess.run is entered: the command, who evaluates, and what came back
Logged(cmd, o) ==
    Append(log, [cmd |-> cmd, by |-> caller, ok |-> run_git_command(o)[1],
                 out |-> run_git_command(o)[2]])

MayFail == failures < MaxFailures

\* the failures that do not come from the repository are counted
Count(cmd, o) == failures + (IF o # Git(cmd, repo) THEN 1 ELSE 0)

\* check_feature_branch returns res to the one who called it
Return(res) ==
    IF caller = "main"
    THEN /\ result' = res
         /\ pc' = "display"
         /\ UNCHANGED check_result
    ELSE /\ check_result' = res
         /\ pc' = "act"
         /\ UNCHANGED result

Continue(next) ==
    /\ pc' = next
    /\ UNCHANGED <<result, check_result>>

\* lines 106-109
Probe ==
    /\ pc = "probe"
    /\ \E o \in Launch(CmdProbe, repo, MayFail) :
        /\ log' = Logged(CmdProbe, o)
        /\ raw' = o.out
        /\ failures' = Count(CmdProbe, o)
        /\ IF ~is_git_repository(run_git_command(o))
           THEN Return(NotRepoResult(branch_name))
           ELSE Continue("status")
    /\ UNCHANGED <<repo, argv, branch_name, caller, response, ret, exit_code,
                   branches, changes>>

\* lines 111-115
Status ==
    /\ pc = "status"
    /\ \E o \in Launch(CmdStatus, repo, MayFail) :
        /\ log' = Logged(CmdStatus, o)
        /\ raw' = o.out
        /\ failures' = Count(CmdStatus, o)
        /\ IF has_uncommitted_changes(run_git_command(o))
           THEN Return(DirtyResult(branch_name))
           ELSE Continue("current")
    /\ UNCHANGED <<repo, argv, branch_name, caller, response, ret, exit_code,
                   branches, changes>>

\* lines 117-123
Current ==
    /\ pc = "current"
    /\ \E o \in Launch(CmdCurrent, repo, MayFail) :
        /\ log' = Logged(CmdCurrent, o)
        /\ raw' = o.out
        /\ failures' = Count(CmdCurrent, o)
        /\ IF IsCurrent(get_current_branch(run_git_command(o)), branch_name)
           THEN Return(AlreadyResult(branch_name))
           ELSE Continue("list")
    /\ UNCHANGED <<repo, argv, branch_name, caller, response, ret, exit_code,
                   branches, changes>>

\* lines 125-136
List ==
    /\ pc = "list"
    /\ \E o \in Launch(CmdList, repo, MayFail) :
        LET r == run_git_command(o)
            list == get_all_branches(r[1], r[2])
        IN  /\ log' = Logged(CmdList, o)
            /\ raw' = o.out
            /\ failures' = Count(CmdList, o)
            /\ branches' = list
            /\ Return(ExistenceResult(branch_name, list))
    /\ UNCHANGED <<repo, argv, branch_name, caller, response, ret, exit_code, changes>>

-----------------------------------------------------------------------------
(* main, lines 165-207 *)

\* lines 166-178
Start ==
    /\ pc = "start"
    /\ IF Len(argv) # 2
       THEN /\ pc' = "done"
            /\ exit_code' = 1
            /\ UNCHANGED <<branch_name, caller>>
       ELSE /\ branch_name' = argv[2]
            /\ caller' = "main"
            /\ pc' = "probe"
            /\ UNCHANGED exit_code
    /\ UNCHANGED <<repo, argv, result, check_result, response, ret, log, raw,
                   branches, failures, changes>>

\* line 195
AsksUser(res) == res.can_proceed /\ res.action # "already_on_branch"

\* lines 180-195 and 206-207: the decision is printed
Display ==
    /\ pc = "display"
    /\ IF Truthy(result.error)
       THEN pc' = "done" /\ exit_code' = 1
       ELSE IF AsksUser(result)
       THEN pc' = "prompt" /\ UNCHANGED exit_code
       ELSE pc' = "done" /\ exit_code' = 0
    /\ UNCHANGED <<repo, argv, branch_name, caller, result, check_result, response,
                   ret, log, raw, branches, failures, changes>>

\* a variant of the confirmation that proceeds unless the answer is n or no
Confirms_unless_no(answer) == Lower(Strip(answer)) \notin {<<"n">>, <<"n", "o">>}

\* lines 196-197
Confirms(answer) == Lower(Strip(answer)) \in {<<"y">>, <<"y", "e", "s">>}

\* lines 196-198 and 204-205: the answer is read
Prompt ==
    /\ pc = "prompt"
    /\ \E answer \in Answers :
        /\ response' = Some(answer)
        /\ IF Confirms(answer)
           THEN /\ caller' = "execute"
                /\ pc' = "probe"
                /\ UNCHANGED exit_code
           ELSE /\ pc' = "done"
                /\ exit_code' = 0
                /\ UNCHANGED caller
    /\ UNCHANGED <<repo, argv, branch_name, result, check_result, ret, log, raw,
                   branches, failures, changes>>

-----------------------------------------------------------------------------
(* create_or_switch_branch, lines 138-162, after its check_feature_branch *)

\* lines 148 and 155: the command the decision asks for, none for the other decisions
CommandFor(res) ==
    IF ~res.can_proceed \/ res.action = "already_on_branch" THEN <<>>
    ELSE IF res.action = "switch" THEN <<CmdCheckout(res.branch_name)>>
    ELSE IF res.action = "create" THEN <<CmdCreate(res.branch_name)>>
    ELSE <<>>

\* a variant of the return without a command that drops the decision's error
ReturnWithout_generic(res) ==
    IF res.can_proceed /\ res.action = "already_on_branch"
    THEN <<TRUE, Some(<<"Already on branch '">> \o res.branch_name \o <<"'">>)>>
    ELSE <<FALSE, Some(<<"Unknown action">>)>>

\* lines 142-146 and 162: the return without a command
ReturnWithout(res) ==
    IF ~res.can_proceed THEN <<FALSE, res.error>>
    ELSE IF res.action = "already_on_branch"
    THEN <<TRUE, Some(<<"Already on branch '">> \o res.branch_name \o <<"'">>)>>
    ELSE <<FALSE, Some(<<"Unknown action">>)>>

\* lines 149-153 and 156-160: the return after the command
ReturnAfter(res, r) ==
    IF res.action = "switch"
    THEN IF r[1]
         THEN <<TRUE, Some(<<"Switched to branch '">> \o res.branch_name \o <<"'">>)>>
         ELSE <<FALSE, Some(<<"Failed to switch to branch '">> \o res.branch_name
                              \o <<"': ">> \o r[3])>>
    ELSE IF r[1]
         THEN <<TRUE, Some(<<"Created and switched to branch '">> \o res.branch_name \o <<"'">>)>>
         ELSE <<FALSE, Some(<<"Failed to create branch '">> \o res.branch_name
                              \o <<"': ">> \o r[3])>>

\* lines 199-203
ExitFor(value) == IF value[1] THEN 0 ELSE 1

\* lines 142-162, then lines 199-203 of main
Act ==
    /\ pc = "act"
    /\ IF CommandFor(check_result) = <<>>
       THEN /\ ret' = ReturnWithout(check_result)
            /\ UNCHANGED <<repo, log, raw, failures>>
       ELSE \E o \in Launch(CommandFor(check_result)[1], repo, MayFail) :
            /\ log' = Logged(CommandFor(check_result)[1], o)
            /\ raw' = o.out
            /\ failures' = Count(CommandFor(check_result)[1], o)
            /\ repo' = o.repo
            /\ ret' = ReturnAfter(check_result, run_git_command(o))
    /\ exit_code' = ExitFor(ret')
    /\ pc' = "done"
    /\ UNCHANGED <<argv, branch_name, caller, result, check_result, response,
                   branches, changes>>

-----------------------------------------------------------------------------
(* The repository changes out-of-band, between two commands of the run *)

Changed(r) ==
    IF ~r.isRepo
    THEN {[isRepo |-> TRUE, dirty |-> FALSE, head |-> "main", locals |-> {"main"},
           remotes |-> {}]}
    ELSE {[r EXCEPT !.isRepo = FALSE]}
         \cup {[r EXCEPT !.dirty = ~r.dirty]}
         \cup {[r EXCEPT !.head = h] : h \in (r.locals \cup {DETACHED}) \ {r.head}}
         \cup {[r EXCEPT !.locals = @ \cup {n}] : n \in LocalNames \ r.locals}
         \cup {[r EXCEPT !.locals = @ \ {n}] : n \in r.locals \ {r.head}}
         \cup {[r EXCEPT !.remotes = (@ \ {x}) \cup ({x} \ @)] : x \in RemoteRefs}

OutOfBand ==
    /\ pc \in {"probe", "status", "current", "list", "prompt", "act"}
    /\ log # <<>>
    /\ changes < MaxChanges
    /\ \E r \in Changed(repo) : repo' = r
    /\ changes' = changes + 1
    /\ UNCHANGED <<pc, argv, branch_name, caller, result, check_result, response,
                   ret, exit_code, log, raw, branches, failures>>

-----------------------------------------------------------------------------
(* One run of the command line *)

Init ==
    /\ repo \in Repos
    /\ argv \in Argvs
    /\ pc = "start"
    /\ branch_name = <<>>
    /\ caller = "main"
    /\ result = NewResult(<<>>)
    /\ check_result = NewResult(<<>>)
    /\ response = None
    /\ ret = <<FALSE, None>>
    /\ exit_code = -1
    /\ log = <<>>
    /\ raw = <<>>
    /\ branches = <<>>
    /\ failures = 0
    /\ changes = 0

Next ==
    \/ Start
    \/ Probe
    \/ Status
    \/ Current
    \/ List
    \/ Display
    \/ Prompt
    \/ Act
    \/ OutOfBand

Spec == Init /\ [][Next]_vars

-----------------------------------------------------------------------------
(* get_all_branches on its own: a listing is captured and parsed *)

\* the lines `git branch -a` prints for the branches main, dev, rel and two remotes
ListingLines ==
    {<<"*", SP, "main", NL>>, <<SP, SP, "main", NL>>, <<SP, SP, "dev", NL>>,
     <<SP, SP, "remotes/", "origin/", "dev", NL>>,
     <<SP, SP, "remotes/", "origin/", "rel", NL>>,
     <<SP, SP, "remotes/", "upstream/", "dev", NL>>}

RECURSIVE Concat(_)
Concat(ss) == IF ss = <<>> THEN <<>> ELSE Head(ss) \o Concat(Tail(ss))

\* listings of at most MaxLines different lines, a branch listed locally once
Listings ==
    {Concat(ls) : ls \in
        {x \in UNION {[1..n -> ListingLines] : n \in 0..MaxLines} :
            /\ \A i, j \in 1..Len(x) : i # j => x[i] # x[j]
            /\ ~({<<"*", SP, "main", NL>>, <<SP, SP, "main", NL>>} \subseteq SeqToSet(x))}}

InitParse ==
    /\ repo = NoRepo
    /\ argv = <<Prog>>
    /\ pc = "listing"
    /\ branch_name = <<>>
    /\ caller = "main"
    /\ result = NewResult(<<>>)
    /\ check_result = NewResult(<<>>)
    /\ response = None
    /\ ret = <<FALSE, None>>
    /\ exit_code = -1
    /\ log = <<>>
    /\ raw \in Listings
    /\ branches = <<>>
    /\ failures = 0
    /\ changes = 0

\* lines 45-61 on the captured listing
ParseListing ==
    /\ pc = "listing"
    /\ \E o \in {Exit(0, raw, <<>>, repo), Exit(128, <<>>, <<"fatal", NL>>, repo)} :
        LET r == run_git_command(o)
        IN  /\ log' = Logged(CmdList, o)
            /\ branches' = get_all_branches(r[1], r[2])
    /\ pc' = "parsed"
    /\ UNCHANGED <<repo, argv, branch_name, caller, result, check_result, response,
                   ret, exit_code, raw, failures, changes>>

NextParse == ParseListing

SpecParse == InitParse /\ [][NextParse]_vars

-----------------------------------------------------------------------------
(* What the claims speak of: the repository state an evaluation derived from  *)
(* the commands it issued, and the decision it returned.                       *)

Callers == {"main", "execute"}

Decision(c) == IF c = "main" THEN result ELSE check_result

\* check_feature_branch has returned to c
Evaluated(c) == Decision(c).action # "unknown" \/ Decision(c).error # None

Issued(c, cmd) == {i \in 1..Len(log) : log[i].by = c /\ log[i].cmd = cmd}

InspectionCmds == {CmdProbe, CmdStatus, CmdCurrent, CmdList}

IsCheckout(e) == e.cmd[2] = <<"checkout">>

\* isRepository: the metadata-directory probe succeeded
IsRepository(c) == \E i \in Issued(c, CmdProbe) : log[i].ok

\* isDirty: the porcelain status query returned a non-empty output line
IsDirty(c) == \E i \in Issued(c, CmdStatus) : log[i].out # <<>>

\* currentBranch: the trimmed output of the current-branch query, absent when empty
CurrentBranch(c) ==
    IF \E i \in Issued(c, CmdCurrent) : log[i].ok /\ log[i].out # <<>>
    THEN Some(log[CHOOSE i \in Issued(c, CmdCurrent) : log[i].ok].out)
    ELSE None

\* the bare name of one listed line: the `*` marker and the blanks stripped, for a
\* remote entry the `remotes/` prefix and a following `origin/` segment stripped
BareName(line) ==
    LET unstarred == IF StartsWith(Strip(line), <<"*">>)
                     THEN Strip(Tail(Strip(line))) ELSE Strip(line)
        unremoted == IF StartsWith(unstarred, <<"remotes/">>) THEN Tail(unstarred) ELSE unstarred
    IN  IF unstarred # unremoted /\ StartsWith(unremoted, <<"origin/">>)
        THEN Tail(unremoted) ELSE unremoted

\* knownBranches: the bare names of the listed lines
BareNames(output) ==
    {BareName(Split(output)[k]) : k \in {k \in 1..Len(Split(output)) : Strip(Split(output)[k]) # <<>>}}

KnownBranches(c) ==
    UNION {BareNames(log[i].out) : i \in {i \in Issued(c, CmdList) : log[i].ok}}

\* the answer is y or yes, whatever the case and the blanks around it
SaysYes(answer) ==
    LET typed == SelectSeq(answer, LAMBDA t : t \notin Whitespace)
    IN  \/ Len(typed) = 1 /\ typed[1] \in {"y", "Y"}
        \/ Len(typed) = 3 /\ typed[1] \in {"y", "Y"} /\ typed[2] \in {"e", "E"}
                          /\ typed[3] \in {"s", "S"}

-----------------------------------------------------------------------------
(* The claims *)

\* C1: whenever the probe succeeded and the status query returned a non-empty line,
\* the evaluation returns a blocked decision, can_proceed false and a non-empty error,
\* for every branch name, the current branch included.
C1_DirtyBlocks ==
    \A c \in Callers :
        Evaluated(c) /\ IsRepository(c) /\ IsDirty(c)
            => /\ ~Decision(c).can_proceed
               /\ Decision(c).error # None
               /\ Decision(c).error # Some(<<>>)
               /\ Decision(c).action \notin {"switch", "create", "already_on_branch"}

\* C1 witness: a dirty tree, the branch asked for is the current one, and the decision is back
C1_Witness ==
    /\ pc = "display"
    /\ IsRepository("main") /\ IsDirty("main")
    /\ repo.isRepo /\ repo.dirty /\ branch_name = <<repo.head>>
    /\ ~result.can_proceed

\* C2 (as claimed): in a clean, valid repository, for a name that differs from the
\* current branch, the decision proceeds, is switch exactly when the name is a known
\* branch and is create otherwise.  Stated for the runs in which every command
\* succeeded and nothing changed out-of-band.
C2_SwitchIffKnown ==
    \A c \in Callers :
        Evaluated(c) /\ IsRepository(c) /\ ~IsDirty(c) /\ failures = 0 /\ changes = 0
          /\ CurrentBranch(c) # Some(Decision(c).branch_name)
            => /\ Decision(c).can_proceed
               /\ Decision(c).action \in {"switch", "create"}
               /\ Decision(c).action = "switch"
                    <=> Decision(c).branch_name \in KnownBranches(c)

\* C3 (as claimed): in a clean, valid repository the decision is already_on_branch
\* exactly when a current branch exists and equals the name asked for; never in the
\* detached state, the empty name included.  Stated for the runs in which every
\* command succeeded and nothing changed out-of-band.
C3_AlreadyIffCurrent ==
    \A c \in Callers :
        Evaluated(c) /\ IsRepository(c) /\ ~IsDirty(c) /\ failures = 0 /\ changes = 0
            => (Decision(c).action = "already_on_branch" /\ Decision(c).can_proceed)
                 <=> (CurrentBranch(c) # None
                      /\ CurrentBranch(c) = Some(Decision(c).branch_name))

\* C4 (as claimed): when create_or_switch_branch finds the decision blocked it fails
\* with the decision's error and no command at all was run during the call.
C4_BlockedRunsNothing ==
    Evaluated("execute") /\ ~check_result.can_proceed
        => /\ \A i \in 1..Len(log) : log[i].by # "execute"
           /\ pc = "done" => ret = <<FALSE, check_result.error>>

\* C4 (amended): when create_or_switch_branch finds the decision blocked it fails with
\* the decision's error and issues no checkout; the commands run during the call are
\* the probe and, after a successful probe, the status query, once each.
C4_BlockedRunsNoCheckout ==
    Evaluated("execute") /\ ~check_result.can_proceed
        => /\ \A i \in 1..Len(log) :
                log[i].by = "execute" => log[i].cmd \in {CmdProbe, CmdStatus}
           /\ Cardinality(Issued("execute", CmdProbe)) = 1
           /\ Cardinality(Issued("execute", CmdStatus)) = (IF IsRepository("execute") THEN 1 ELSE 0)
           /\ pc = "done" => ret = <<FALSE, check_result.error>> /\ exit_code = 1
           /\ check_result.error \in {Some(NotRepoError), Some(DirtyError)}

\* C4 witness: the user confirmed, the tree had become dirty, the call has failed
C4_Witness ==
    /\ pc = "done"
    /\ result.can_proceed /\ response # None
    /\ check_result.error = Some(DirtyError)
    /\ ret = <<FALSE, Some(DirtyError)>>


\* C5 (as claimed): get_all_branches returns exactly the bare names of the listed
\* lines, the starred current branch among them.
C5_AllListedNames ==
    pc = "parsed" /\ log[1].ok => SeqToSet(branches) = BareNames(log[1].out)

\* C6 (as claimed): an evaluation in which an inspection command failed returns the
\* blocked not-a-repository decision.
C6_FailureBlocks ==
    \A c \in Callers :
        Evaluated(c) /\ (\E i \in 1..Len(log) :
                            log[i].by = c /\ log[i].cmd \in InspectionCmds /\ ~log[i].ok)
            => /\ ~Decision(c).can_proceed
               /\ Decision(c).error = Some(NotRepoError)

\* C7: a checkout is in the log only if main's decision proceeds with switch or create,
\* the answer read is y or yes, and the checkout follows every command of main's
\* evaluation; so none after another answer, a blocked or already_on_branch decision,
\* or a wrong argument count.
C7_CheckoutOnlyConfirmed ==
    \A i \in 1..Len(log) :
        IsCheckout(log[i])
            => /\ Len(argv) = 2
               /\ Evaluated("main")
               /\ result.can_proceed
               /\ result.action \in {"switch", "create"}
               /\ result.error = None
               /\ response # None
               /\ SaysYes(response[1])
               /\ log[i].by = "execute"
               /\ \A j \in 1..Len(log) : log[j].by = "main" => j < i

\* C7 witness: the branch was created after the answer " YEs "
C7_Witness ==
    /\ pc = "done"
    /\ response = Some(<<SP, "Y", "E", "s", SP>>)
    /\ log[Len(log)].cmd = CmdCreate(<<"rel">>)
    /\ log[Len(log)].ok
    /\ repo.head = "rel"

\* C8 (as claimed): no command is issued more than once in a run.
C8_EachCommandOnce ==
    \A i, j \in 1..Len(log) : i # j => log[i].cmd # log[j].cmd

\* C8 (amended): an inspection command is issued at most once per evaluation of
\* check_feature_branch, so at most twice in a run (main's evaluation, then the one of
\* create_or_switch_branch), and at most one checkout is issued, failed or not.
C8_OncePerEvaluation ==
    /\ \A i, j \in 1..Len(log) :
        i < j /\ log[i].cmd = log[j].cmd
            => /\ log[i].cmd \in InspectionCmds
               /\ log[i].by = "main" /\ log[j].by = "execute"
    /\ Cardinality({i \in 1..Len(log) : IsCheckout(log[i])}) <= 1

\* C8 witness: both evaluations ran to the listing, a command failed, a checkout was issued
C8_Witness ==
    /\ Len(log) = 9
    /\ \E i \in 1..Len(log) : ~log[i].ok
    /\ IsCheckout(log[9])

\* C9: an evaluation whose probe failed returns the blocked not-a-repository decision
\* and has issued the probe only.
C9_NotRepoStopsAtProbe ==
    \A c \in Callers :
        Evaluated(c) /\ ~IsRepository(c)
            => /\ Decision(c) = NotRepoResult(branch_name)
               /\ ~Decision(c).can_proceed
               /\ \A i \in 1..Len(log) : log[i].by = c => log[i].cmd = CmdProbe
               /\ Cardinality({i \in 1..Len(log) : log[i].by = c}) <= 1

\* C9 witness: the directory is no repository and main's decision is back
C9_Witness ==
    /\ pc = "display"
    /\ ~repo.isRepo
    /\ Len(log) = 1 /\ ~log[1].ok
    /\ result.error = Some(NotRepoError)

\* C10 (as claimed): the checkout follows the re-evaluation: `checkout -b X` only if the
\* re-check found a valid, clean repository, X not the current branch and X absent
\* from the branch list; `checkout X` only if X was listed; none if the re-check
\* found the tree dirty or no repository.
C10_CheckoutFollowsRecheck ==
    \A i \in 1..Len(log) :
        IsCheckout(log[i])
            => /\ IsRepository("execute") /\ ~IsDirty("execute")
               /\ log[i].cmd = CmdCreate(branch_name)
                    => /\ CurrentBranch("execute") # Some(branch_name)
                       /\ branch_name \notin KnownBranches("execute")
               /\ log[i].cmd = CmdCheckout(branch_name)
                    => branch_name \in KnownBranches("execute")

====
